---- MODULE Spec2Model ----
(***************************************************************************)
(* Model of scripts/migrate_to_issue_types.py: GitHubIssueMigrator and     *)
(* the GitHub GraphQL server it talks to.                                  *)
(*                                                                         *)
(* One run of migrate_issues is a sequence of steps, one per network       *)
(* request (the only suspension points of the coroutine) plus the loop     *)
(* heads and the finally block.  The server is the environment: it holds   *)
(* the organization's issue types, the repository's labels and, per        *)
(* issue, its labels and its issue type; it answers every request from     *)
(* that state, or with an HTTP/GraphQL error.                              *)
(***************************************************************************)
EXTENDS Integers, Sequences, FiniteSets, TLC

(***************************************************************************)
(* Bounds of the model.                                                    *)
(***************************************************************************)
\* Number of issues of the repository.
MaxIssues == 2
\* Issues the server puts on one page (the query asks for `first: 100`).
PageSize == 1
\* Largest value of --limit tried (besides no limit and -1).
MaxLimit == 2
\* Most requests of one run the server answers with an error.
MaxFailures == 2

(***************************************************************************)
(* Values.                                                                 *)
(***************************************************************************)
\* Python's None, and a present optional value.
None == <<>>
Some(x) == <<x>>
\* `'cursor': None`: the null cursor of the first page request.
NullCursor == 0
\* An issue with no issue type.
NoType == "none"

Issues == 1..MaxIssues

\* str.lower() on the names that occur.
Lower(s) ==
    CASE s = "Bug" -> "bug"
      [] s = "BUG" -> "bug"
      [] s = "Feature" -> "feature"
      [] s = "Enhancement" -> "enhancement"
      [] OTHER -> s

Min(a, b) == IF a <= b THEN a ELSE b

\* The items of the label -> issue type mapping: those of
\* DEFAULT_LABEL_TO_TYPE_MAPPING (the type of the second written in another
\* case than the server's), and a second key naming the label bug.
MappingItems == { <<"bug", "Bug">>, <<"enhancement", "feature">>, <<"BUG", "feature">> }

\* LABEL_TO_TYPE_MAPPING: a dict, so a sequence of items with distinct keys,
\* in insertion order.
Mappings ==
    { <<a>> : a \in MappingItems }
      \cup { <<a, b>> : <<a, b>> \in { p \in MappingItems \X MappingItems : p[1][1] # p[2][1] } }

\* --limit: absent, or an int.
Limits == { None } \cup { Some(n) : n \in -1..MaxLimit }

(***************************************************************************)
(* The server's data.                                                      *)
(***************************************************************************)
TypeBug == [id |-> "IT_bug", name |-> "Bug"]
TypeFeature == [id |-> "IT_feature", name |-> "Feature"]
LabelBug == [id |-> "LA_bug", name |-> "bug"]
LabelEnhancement == [id |-> "LA_enhancement", name |-> "Enhancement"]

\* organization.issueTypes.nodes, as the server lists them.
OrgTypeLists == { <<TypeBug>>, <<TypeBug, TypeFeature>> }
\* repository.labels.nodes, as the server lists them.
RepoLabelLists == { <<LabelBug>>, <<LabelBug, LabelEnhancement>> }

NodeIds(nodes) == { nodes[k].id : k \in 1..Len(nodes) }

VARIABLES
    \* configuration of the run
    mapping,        \* LABEL_TO_TYPE_MAPPING
    limit,          \* migrate_issues(limit=...)
    dry_run,        \* migrate_issues(dry_run=...)
    \* the server
    orgTypes,       \* issue types of the organization
    repoLabels,     \* labels of the repository
    issueLabels,    \* issue -> ids of the labels it carries
    issueType,      \* issue -> id of its issue type, or NoType
    \* migrate_issues
    pc,             \* where the coroutine stands
    entry,          \* index of the current item of the mapping
    issue_type,     \* the node get_issue_type returned
    label_id,       \* the id get_label_id returned
    cursor,         \* variables['cursor'] of get_issues_with_label
    issues,         \* the list get_issues_with_label accumulates / returned
    idx,            \* position of `for issue in issues`
    count,          \* the attempted count
    result,         \* the value migrate_issues returned, None before
    exc,            \* the exception migrate_issues raised, "" before
    \* main / run_migration
    main,           \* where run_migration stands
    client_closed,  \* self.client.aclose() has been awaited
    summary,        \* the final summary line, None before it is written
    \* history
    log,            \* the requests sent, each with its outcome
    visits,         \* the issue steps completed, each with its outcome
    listed,         \* the lists get_issues_with_label returned, in order
    dryOutcome      \* the outcome of the dry pass run before (SpecPair)

vars == << mapping, limit, dry_run, orgTypes, repoLabels, issueLabels, issueType,
           pc, entry, issue_type, label_id, cursor, issues, idx, count, result, exc,
           main, client_closed, summary,
           log, visits, listed, dryOutcome >>

config == << mapping, limit, dry_run >>
server == << orgTypes, repoLabels, issueLabels, issueType >>
runner == << main, client_closed, summary >>

(***************************************************************************)
(* Pure parts of the code.                                                 *)
(***************************************************************************)
\* The `for node in nodes: if node['name'].lower() == name.lower()` scan of
\* get_issue_type and get_label_id: index of the first match, 0 if none.
RECURSIVE FirstMatchFrom(_, _, _)
FirstMatchFrom(nodes, name, k) ==
    IF k > Len(nodes) THEN 0
    ELSE IF Lower(nodes[k].name) = Lower(name) THEN k
    ELSE FirstMatchFrom(nodes, name, k + 1)

FirstMatchIsFirst(nodes, name) == IF Len(nodes) > 0 THEN 1 ELSE 0
FirstMatch(nodes, name) == FirstMatchFrom(nodes, name, 1)

\* get_label_id: `return label['id']`
LabelIdIsName(label) == label.name
LabelIdOf(label) == label.id

\* `limit is not None and count >= limit`
LimitReachedAfter(lim, c) == lim # None /\ c > lim[1]
LimitReached(lim, c) == lim # None /\ c >= lim[1]

\* issues.extend(edge['node'] for edge in data['edges'])
ExtendOverwrites(acc, edges) == edges
Extend(acc, edges) == acc \o edges

\* `if not data['pageInfo']['hasNextPage']: break`
LastPageWhenEmpty(data) == data.edges = <<>>
LastPage(data) == ~data.hasNextPage

\* variables['cursor'] = data['pageInfo']['endCursor']
NextCursor(data) == data.endCursor

(***************************************************************************)
(* The server's answers.                                                   *)
(***************************************************************************)
\* issues(labels: [$label]): the issues carrying the label of that name, in
\* the order of their numbers.
RECURSIVE IssuesFrom(_, _, _)
IssuesFrom(labs, ids, i) ==
    IF i > MaxIssues THEN <<>>
    ELSE (IF labs[i] \cap ids # {} THEN <<i>> ELSE <<>>) \o IssuesFrom(labs, ids, i + 1)

IssuesWithLabel(labs, nodes, label) ==
    IssuesFrom(labs, { nodes[k].id : k \in { j \in 1..Len(nodes) : Lower(nodes[j].name) = Lower(label) } }, 1)

\* issues(first: 100, after: $cursor): one page and its pageInfo.
ServePage(all, after) ==
    LET last == Min(after + PageSize, Len(all))
    IN  [ edges |-> SubSeq(all, after + 1, last),
          endCursor |-> IF last > after THEN last ELSE NullCursor,
          hasNextPage |-> last < Len(all) ]

(***************************************************************************)
(* History records.                                                        *)
(***************************************************************************)
\* A request sent and the answer to it: ok is FALSE for an HTTP error status
\* or a GraphQL `errors` body; page is the pageInfo and the edges of an issue
\* listing.
NoPage == [edges |-> <<>>, endCursor |-> NullCursor, hasNextPage |-> FALSE]
\* id is the identifier a lookup returned or a mutation was sent ("" if none).
Request(op, e, i, c, ok, page, id) ==
    [op |-> op, entry |-> e, issue |-> i, cursor |-> c, ok |-> ok, page |-> page, id |-> id]
Visit(e, i, outcome) == [entry |-> e, issue |-> i, outcome |-> outcome]

NotPaired == [status |-> "single", result |-> None, listed |-> <<>>]

(***************************************************************************)
(* Initial state: run_migration has entered `async with` (the client is    *)
(* open) and migrate_issues has just been called.                          *)
(***************************************************************************)
\* (issue_type and label_id are unbound until their lookups return; they
\* hold placeholders that nothing reads.)
RunStart ==
    /\ pc = "for_label"
    /\ entry = 1
    /\ issue_type = TypeBug
    /\ label_id = ""
    /\ cursor = NullCursor
    /\ issues = <<>>
    /\ idx = 1
    /\ count = 0
    /\ result = None
    /\ exc = ""
    /\ main = "async_with"
    /\ client_closed = FALSE
    /\ summary = None
    /\ log = <<>>
    /\ visits = <<>>
    /\ listed = <<>>

ServerStart ==
    /\ orgTypes \in OrgTypeLists
    /\ repoLabels \in RepoLabelLists
    /\ issueLabels \in [Issues -> SUBSET NodeIds(repoLabels)]
    /\ issueType = [i \in Issues |-> NoType]

Init ==
    /\ mapping \in Mappings
    /\ limit \in Limits
    /\ dry_run \in BOOLEAN
    /\ ServerStart
    /\ RunStart
    /\ dryOutcome = NotPaired

\* The answers the server may give to the next request: success, or (while
\* fewer than MaxFailures requests of the run have failed) an HTTP error
\* status or a GraphQL `errors` body, which raise httpx.HTTPError.  A failed
\* mutation changes nothing on the server.
Answers ==
    IF Cardinality({ k \in 1..Len(log) : ~log[k].ok }) < MaxFailures
    THEN BOOLEAN
    ELSE {TRUE}

(***************************************************************************)
(* The server's mutations.                                                 *)
(***************************************************************************)
\* updateIssueIssueType
SetIssueType(types, i, type_id) == [types EXCEPT ![i] = type_id]
\* removeLabelsFromLabelable
RemoveAllLabels(labs, i, lid) == [labs EXCEPT ![i] = {}]
RemoveLabels(labs, i, lid) == [labs EXCEPT ![i] = @ \ {lid}]

(***************************************************************************)
(* migrate_issues, step by step.                                           *)
(***************************************************************************)
\* raise: the exception leaves migrate_issues (nothing outside the
\* per-issue try catches it).
Raise(e) ==
    /\ pc' = "raised"
    /\ exc' = e

\* return count
Return ==
    /\ pc' = "returned"
    /\ result' = Some(count)

\* `for label, issue_type_name in LABEL_TO_TYPE_MAPPING.items()`, and the
\* `return count` after the loop.
ForLabel ==
    /\ pc = "for_label"
    /\ IF entry <= Len(mapping)
       THEN pc' = "get_issue_type" /\ UNCHANGED result
       ELSE Return
    /\ UNCHANGED << config, server, entry, issue_type, label_id, cursor, issues, idx,
                    count, exc, log, visits, listed, dryOutcome, runner >>

\* issue_type = await self.get_issue_type(issue_type_name)
get_issue_type ==
    /\ pc = "get_issue_type"
    /\ \E ok \in Answers :
         /\ log' = Append(log, Request("get_issue_type", entry, 0, NullCursor, ok, NoPage,
                                       IF ok /\ FirstMatch(orgTypes, mapping[entry][2]) # 0
                                       THEN orgTypes[FirstMatch(orgTypes, mapping[entry][2])].id
                                       ELSE ""))
         /\ IF ~ok
            THEN Raise("HTTPError") /\ UNCHANGED issue_type
            ELSE LET k == FirstMatch(orgTypes, mapping[entry][2])
                 IN  IF k = 0
                     THEN Raise("ValueError") /\ UNCHANGED issue_type
                     ELSE /\ issue_type' = orgTypes[k]
                          /\ pc' = "get_label_id"
                          /\ UNCHANGED exc
    /\ UNCHANGED << config, server, entry, label_id, cursor, issues, idx, count, result,
                    visits, listed, dryOutcome, runner >>

\* label_id = await self.get_label_id(label)
get_label_id ==
    /\ pc = "get_label_id"
    /\ \E ok \in Answers :
         /\ log' = Append(log, Request("get_label_id", entry, 0, NullCursor, ok, NoPage,
                                       IF ok /\ FirstMatch(repoLabels, mapping[entry][1]) # 0
                                       THEN LabelIdOf(repoLabels[FirstMatch(repoLabels, mapping[entry][1])])
                                       ELSE ""))
         /\ IF ~ok
            THEN Raise("HTTPError") /\ UNCHANGED << label_id, cursor, issues >>
            ELSE LET k == FirstMatch(repoLabels, mapping[entry][1])
                 IN  IF k = 0
                     THEN Raise("ValueError") /\ UNCHANGED << label_id, cursor, issues >>
                     ELSE /\ label_id' = LabelIdOf(repoLabels[k])
                          \* get_issues_with_label starts: cursor None, issues []
                          /\ cursor' = NullCursor
                          /\ issues' = <<>>
                          /\ pc' = "get_issues_with_label"
                          /\ UNCHANGED exc
    /\ UNCHANGED << config, server, entry, issue_type, idx, count, result,
                    visits, listed, dryOutcome, runner >>

\* One turn of the `while True` of get_issues_with_label: one page request.
get_issues_partial_list ==
    /\ pc = "get_issues_with_label"
    /\ \E ok \in Answers :
         LET data == ServePage(IssuesWithLabel(issueLabels, repoLabels, mapping[entry][1]), cursor)
         IN  /\ log' = Append(log, Request("get_issues_with_label", entry, 0, cursor, ok,
                                           IF ok THEN data ELSE NoPage, ""))
             /\ issues' = IF ok THEN Extend(issues, data.edges) ELSE issues
             /\ IF ~ok \/ LastPage(data)
                THEN /\ pc' = "for_issue"
                     /\ idx' = 1
                     /\ listed' = Append(listed, issues')
                     /\ UNCHANGED cursor
                ELSE /\ cursor' = NextCursor(data)
                     /\ UNCHANGED << pc, idx, listed >>
             /\ UNCHANGED exc
    /\ UNCHANGED << config, server, entry, issue_type, label_id, count, result,
                    visits, dryOutcome, runner >>

get_issues_with_label ==
    /\ pc = "get_issues_with_label"
    /\ \E ok \in Answers :
         LET data == ServePage(IssuesWithLabel(issueLabels, repoLabels, mapping[entry][1]), cursor)
         IN  /\ log' = Append(log, Request("get_issues_with_label", entry, 0, cursor, ok,
                                           IF ok THEN data ELSE NoPage, ""))
             /\ IF ~ok
                THEN Raise("HTTPError") /\ UNCHANGED << cursor, issues, idx, listed >>
                ELSE /\ issues' = Extend(issues, data.edges)
                     /\ IF LastPage(data)
                        THEN \* break; return issues; `for issue in issues` starts
                             /\ pc' = "for_issue"
                             /\ idx' = 1
                             /\ listed' = Append(listed, issues')
                             /\ UNCHANGED cursor
                        ELSE /\ cursor' = NextCursor(data)
                             /\ UNCHANGED << pc, idx, listed >>
                     /\ UNCHANGED exc
    /\ UNCHANGED << config, server, entry, issue_type, label_id, count, result,
                    visits, dryOutcome, runner >>

\* Head of `for issue in issues`, with the limit check.
ForIssueLimitFirst ==
    /\ pc = "for_issue"
    /\ IF LimitReached(limit, count)
       THEN Return /\ UNCHANGED entry
       ELSE IF idx > Len(issues)
            THEN /\ entry' = entry + 1
                 /\ pc' = "for_label"
                 /\ UNCHANGED result
            ELSE pc' = "try" /\ UNCHANGED << entry, result >>
    /\ UNCHANGED << config, server, issue_type, label_id, cursor, issues, idx, count, exc,
                    log, visits, listed, dryOutcome, runner >>

ForIssue ==
    /\ pc = "for_issue"
    /\ IF idx > Len(issues)
       THEN /\ entry' = entry + 1
            /\ pc' = "for_label"
            /\ UNCHANGED result
       ELSE IF LimitReached(limit, count)
            THEN Return /\ UNCHANGED entry
            ELSE pc' = "try" /\ UNCHANGED << entry, result >>
    /\ UNCHANGED << config, server, issue_type, label_id, cursor, issues, idx, count, exc,
                    log, visits, listed, dryOutcome, runner >>

\* `issue` of `for issue in issues`: the issues are taken in list order.
CurrentIssueFromEnd == issues[Len(issues) + 1 - idx]
CurrentIssue == issues[idx]

\* update_issue_type(..., issue_type_id=issue_type['id'])
IssueTypeIdArgIsName == issue_type.name
IssueTypeIdArg == issue_type.id

\* remove_label(..., label_id=label_id)
LabelIdArg == label_id

\* finally: count += 1; then the next turn of `for issue in issues`.
FinallyCountsSuccess(outcome) ==
    /\ count' = IF outcome \in {"ok", "dry"} THEN count + 1 ELSE count
    /\ visits' = Append(visits, Visit(entry, CurrentIssue, outcome))
    /\ idx' = idx + 1
    /\ pc' = "for_issue"

Finally(outcome) ==
    /\ count' = count + 1
    /\ visits' = Append(visits, Visit(entry, CurrentIssue, outcome))
    /\ idx' = idx + 1
    /\ pc' = "for_issue"

\* except httpx.HTTPError as e: logger.error(...); then finally.
ExceptOnlyAfterRemove(outcome) ==
    IF outcome = "update_failed"
    THEN pc' = "remove_label" /\ UNCHANGED << count, visits, idx >>
    ELSE Finally(outcome)
ExceptReraises(outcome) ==
    /\ count' = count + 1
    /\ visits' = Append(visits, Visit(entry, CurrentIssue, outcome))
    /\ idx' = idx + 1
    /\ pc' = "raised"
Except(outcome) == Finally(outcome)

\* `if not dry_run`
MutatingAlways(dry) == TRUE
Mutating(dry) == ~dry

\* else: logger.debug("Dry run, skipping migration")
DryRunSkip ==
    /\ pc = "try"
    /\ ~Mutating(dry_run)
    /\ Finally("dry")
    /\ UNCHANGED << config, server, entry, issue_type, label_id, cursor, issues, result, exc,
                    log, listed, dryOutcome, runner >>

\* await self.update_issue_type(...); an HTTPError goes to the except clause
\* and from there to finally.
update_issue_type ==
    /\ pc = "try"
    /\ Mutating(dry_run)
    /\ \E ok \in Answers :
         /\ log' = Append(log, Request("update_issue_type", entry, CurrentIssue, NullCursor, ok,
                                       NoPage, IssueTypeIdArg))
         /\ IF ok
            THEN /\ issueType' = SetIssueType(issueType, CurrentIssue, IssueTypeIdArg)
                 /\ pc' = "remove_label"
                 /\ UNCHANGED << idx, count, visits >>
            ELSE /\ Except("update_failed")
                 /\ UNCHANGED issueType
    /\ UNCHANGED << config, orgTypes, repoLabels, issueLabels, entry, issue_type, label_id,
                    cursor, issues, result, exc, listed, dryOutcome, runner >>

\* await self.remove_label(...); logger.success(...); finally.
remove_label ==
    /\ pc = "remove_label"
    /\ \E ok \in Answers :
         /\ log' = Append(log, Request("remove_label", entry, CurrentIssue, NullCursor, ok,
                                       NoPage, LabelIdArg))
         /\ IF ok
            THEN /\ issueLabels' = RemoveLabels(issueLabels, CurrentIssue, LabelIdArg)
                 /\ Finally("ok")
            ELSE /\ Except("remove_failed")
                 /\ UNCHANGED issueLabels
    /\ UNCHANGED << config, orgTypes, repoLabels, issueType, entry, issue_type, label_id,
                    cursor, issues, result, exc, listed, dryOutcome, runner >>

(***************************************************************************)
(* main / run_migration around migrate_issues.                             *)
(***************************************************************************)
\* __aexit__: `await self.client.aclose()`, whatever ended the block.
CloseOnlyOnSuccess(raised) == ~raised
ClientCloses(raised) == TRUE

\* __aexit__ returns None: an exception is not suppressed.
SuppressesAlways == TRUE
Suppresses == FALSE

\* The `async with` block ends, by the return of migrate_issues or by the
\* exception it raised: __aexit__ runs; an exception then leaves
\* run_migration and asyncio.run, and the process ends with a traceback.
aexit ==
    /\ main = "async_with"
    /\ pc \in {"returned", "raised"}
    /\ client_closed' = (client_closed \/ ClientCloses(pc = "raised"))
    /\ main' = IF pc = "raised" /\ ~Suppresses THEN "failed" ELSE "after_with"
    /\ UNCHANGED << config, server, pc, entry, issue_type, label_id, cursor, issues, idx,
                    count, result, exc, summary, log, visits, listed, dryOutcome >>

\* logger.success(f"{'[DRY] ' if dry else ''}{count} issues migrated")
write_summary ==
    /\ main = "after_with"
    /\ summary' = Some([dry |-> dry_run, count |-> result])
    /\ main' = "done"
    /\ UNCHANGED << config, server, pc, entry, issue_type, label_id, cursor, issues, idx,
                    count, result, exc, client_closed, log, visits, listed, dryOutcome >>

run_migration == aexit \/ write_summary

migrate_issues ==
    \/ ForLabel
    \/ get_issue_type
    \/ get_label_id
    \/ get_issues_with_label
    \/ ForIssue
    \/ DryRunSkip
    \/ update_issue_type
    \/ remove_label

Next == migrate_issues \/ run_migration

Spec == Init /\ [][Next]_vars

(***************************************************************************)
(* Two passes over the same repository: a dry run first (it changes        *)
(* nothing on the server), then a run with dry_run = False called with the *)
(* same mapping and limit.                                                 *)
(***************************************************************************)
InitPair ==
    /\ mapping \in Mappings
    /\ limit \in Limits
    /\ dry_run = TRUE
    /\ ServerStart
    /\ RunStart
    /\ dryOutcome = [status |-> "pending", result |-> None, listed |-> <<>>]

\* The dry pass has ended, by a return or by a failed name lookup: keep what
\* it returned and what it was served, and call migrate_issues again with
\* dry_run = False.  (A pass that a failed request ended was not served the
\* answers of a pass that went on, and is not compared.)
SecondPass ==
    /\ dryOutcome.status = "pending"
    /\ main \in {"done", "failed"}
    /\ pc = "returned" \/ (pc = "raised" /\ exc = "ValueError")
    /\ dryOutcome' = [status |-> pc, result |-> result, listed |-> listed]
    /\ dry_run' = FALSE
    /\ pc' = "for_label"
    /\ entry' = 1
    /\ issue_type' = TypeBug
    /\ label_id' = ""
    /\ cursor' = NullCursor
    /\ issues' = <<>>
    /\ idx' = 1
    /\ count' = 0
    /\ result' = None
    /\ exc' = ""
    /\ main' = "async_with"
    /\ client_closed' = FALSE
    /\ summary' = None
    /\ log' = <<>>
    /\ visits' = <<>>
    /\ listed' = <<>>
    /\ UNCHANGED << mapping, limit, server >>

NextPair == migrate_issues \/ run_migration \/ SecondPass

SpecPair == InitPair /\ [][NextPair]_vars

(***************************************************************************)
(* Vocabulary of the properties.                                           *)
(***************************************************************************)
Lookups == {"get_issue_type", "get_label_id"}
Mutations == {"update_issue_type", "remove_label"}

\* Positions of the log holding a request of one of the operations ops.
SentAt(ops) == { k \in 1..Len(log) : log[k].op \in ops }
Sent(ops) == Cardinality(SentAt(ops))

HasLimit == limit # None /\ limit[1] >= 0

\* Position of x in the sequence s of distinct elements, 0 if absent.
IndexOf(s, x) ==
    IF \E k \in 1..Len(s) : s[k] = x
    THEN CHOOSE k \in 1..Len(s) : s[k] = x
    ELSE 0

LastOf(s) == s[Len(s)]

\* Ids of the server's nodes of that name, compared case-insensitively.
IdsNamed(nodes, name) ==
    { nodes[k].id : k \in { j \in 1..Len(nodes) : Lower(nodes[j].name) = Lower(name) } }

\* The visits the lists served so far call for, in order: the issues of the
\* first list, then those of the second, ...
RECURSIVE Flat(_)
Flat(e) ==
    IF e > Len(listed) THEN <<>>
    ELSE [k \in 1..Len(listed[e]) |-> << e, listed[e][k] >>] \o Flat(e + 1)

RECURSIVE Total(_)
Total(e) == IF e > Len(listed) THEN 0 ELSE Len(listed[e]) + Total(e + 1)
Returned == pc = "returned"
Raised == pc = "raised"

(***************************************************************************)
(* C1: with limit = N, N >= 0, the attempted count never exceeds N, no     *)
(* more than N issue steps complete over the whole run (all labels         *)
(* together), and the returned count is <= N.                              *)
(***************************************************************************)
C1_LimitBoundsAttempts ==
    HasLimit =>
        /\ count <= limit[1]
        /\ Len(visits) <= limit[1]
        /\ Returned => result[1] <= limit[1]

\* The limit is reached in the second label's pass, with issues left over.
C1_Witness ==
    /\ limit = Some(2)
    /\ Returned
    /\ result = Some(2)
    /\ Len(visits) = 2
    /\ visits[1].entry = 1
    /\ visits[2].entry = 2
    /\ idx <= Len(issues)

(***************************************************************************)
(* C2: a dry run sends no mutation request (update_issue_type,             *)
(* remove_label), and so leaves every issue as it was.                     *)
(***************************************************************************)
C2_DryRunSendsNoMutation ==
    dry_run =>
        /\ Sent(Mutations) = 0
        /\ \A i \in Issues : issueType[i] = NoType

\* A dry run that visited issues of two labels and returned.
C2_Witness ==
    /\ dry_run
    /\ Returned
    /\ count >= 3
    /\ Len(listed) = 2
    /\ Sent(Mutations) = 0

(***************************************************************************)
(* C3 (SpecPair): a dry pass and a pass with dry_run = False, called with  *)
(* the same mapping and limit and served the same issue lists, return the  *)
(* same count, whichever mutations of the second pass failed.              *)
(***************************************************************************)
C3_DryRunSameCount ==
    ( /\ dryOutcome.status = "returned"
      /\ Returned
      /\ listed = dryOutcome.listed )
        => result = dryOutcome.result

\* Both passes returned 3 over the same lists, and in the second pass one
\* update_issue_type and one remove_label failed.
C3_Witness ==
    /\ dryOutcome.status = "returned"
    /\ Returned
    /\ listed = dryOutcome.listed
    /\ result = Some(3)
    /\ \E k \in SentAt({"update_issue_type"}) : ~log[k].ok
    /\ \E k \in SentAt({"remove_label"}) : ~log[k].ok

(***************************************************************************)
(* C4: when update_issue_type fails for issue I (HTTP or GraphQL error),   *)
(* no remove_label is sent for I in that label's pass, the error stays     *)
(* inside migrate_issues (the step is recorded as failed and the run does  *)
(* not raise), and what follows is the step of the next issue of the list: *)
(* the next request is its update_issue_type, unless I was the last of the *)
(* list (then the next label's lookup follows, or the return) or the limit *)
(* is reached (then the return).                                           *)
(***************************************************************************)
C4_FailedUpdateIsAbsorbed ==
    \A k \in SentAt({"update_issue_type"}) :
        ~log[k].ok =>
            LET e == log[k].entry
                i == log[k].issue
                p == IndexOf(listed[e], i)
                last == p = Len(listed[e])
            IN  /\ p >= 1
                /\ \A j \in SentAt({"remove_label"}) : ~(log[j].entry = e /\ log[j].issue = i)
                /\ \E v \in 1..Len(visits) : visits[v] = Visit(e, i, "update_failed")
                /\ IF k = Len(log)
                   THEN /\ ~Raised
                        /\ pc \in {"for_issue", "try", "for_label", "get_issue_type", "returned"}
                        /\ pc \in {"for_issue", "try"} => entry = e /\ idx = p + 1
                        /\ pc \in {"for_label", "get_issue_type"} => entry = e + 1 /\ last
                        /\ Returned => LimitReached(limit, count) \/ (last /\ e = Len(mapping))
                   ELSE IF last
                        THEN log[k + 1].op = "get_issue_type" /\ log[k + 1].entry = e + 1
                        ELSE /\ log[k + 1].op = "update_issue_type"
                             /\ log[k + 1].entry = e
                             /\ log[k + 1].issue = listed[e][p + 1]

\* The update of the first issue failed, and the second issue of the same
\* list was migrated after it.
C4_Witness ==
    /\ Len(visits) >= 2
    /\ visits[1].outcome = "update_failed"
    /\ visits[2].outcome = "ok"
    /\ visits[2].entry = visits[1].entry
    /\ visits[2].issue # visits[1].issue

(***************************************************************************)
(* C5: in a run with dry_run = False, the step of issue I under label L    *)
(* mapped to type T in which both mutations succeed leaves, right after    *)
(* it, I with issue type T and without L, and the count one above its      *)
(* value before the step (which the successful update_issue_type did not   *)
(* change).                                                                *)
(***************************************************************************)
C5_MigratedIssue ==
    [][ /\ (pc = "try" /\ pc' = "remove_label") => count' = count
        /\ (pc = "remove_label" /\ LastOf(log').ok) =>
              /\ pc' = "for_issue"
              /\ IdsNamed(orgTypes, mapping[entry][2]) = { issueType'[issues[idx]] }
              /\ IdsNamed(repoLabels, mapping[entry][1]) \cap issueLabels'[issues[idx]] = {}
              /\ IdsNamed(repoLabels, mapping[entry][1]) \subseteq issueLabels[issues[idx]]
              /\ count' = count + 1
              /\ LastOf(visits') = Visit(entry, issues[idx], "ok")
      ]_vars

\* An issue that carried both labels was just migrated from label
\* enhancement to type Feature: it lost that label only.
C5_Witness ==
    /\ pc = "for_issue"
    /\ visits # <<>>
    /\ LastOf(visits).outcome = "ok"
    /\ mapping[entry][1] = "enhancement"
    /\ issueType[LastOf(visits).issue] = "IT_feature"
    /\ issueLabels[LastOf(visits).issue] = {"LA_bug"}
    /\ LastOf(log).op = "remove_label"

(***************************************************************************)
(* C6: the count is incremented exactly once per issue visited, whatever   *)
(* the visit's outcome (both mutations succeeded, either failed, dry run): *)
(* at every point it is the number of issue steps completed, the steps     *)
(* completed are the issues of the served lists in order, each once; the   *)
(* returned value is the number of issues visited, which without a limit   *)
(* is the total length of the lists.  With mapping {bug: Bug}, two issues  *)
(* labelled bug, no limit and no failure, the run returns 2 after 2        *)
(* update_issue_type and 2 remove_label requests.                          *)
(***************************************************************************)
C6_CountIsVisits ==
    /\ count = Len(visits)
    /\ Len(visits) <= Len(Flat(1))
    /\ \A v \in 1..Len(visits) : << visits[v].entry, visits[v].issue >> = Flat(1)[v]
    /\ pc \in {"for_issue", "try", "remove_label"} =>
          count = Total(1) - Len(issues) + idx - 1
    /\ Returned => result = Some(Len(visits))
    /\ (Returned /\ limit = None) =>
          /\ Len(listed) = Len(mapping)
          /\ result = Some(Total(1))
    /\ ( /\ Returned
         /\ mapping = << <<"bug", "Bug">> >>
         /\ limit = None
         /\ ~dry_run
         /\ Len(listed[1]) = 2
         /\ \A k \in 1..Len(log) : log[k].ok )
          => /\ result = Some(2)
             /\ Sent({"update_issue_type"}) = 2
             /\ Sent({"remove_label"}) = 2

\* A run returned 3 after one visit of each outcome of a mutating step.
C6_Witness ==
    /\ Returned
    /\ result = Some(3)
    /\ { visits[v].outcome : v \in 1..Len(visits) } = {"ok", "update_failed", "remove_failed"}

\* The example: mapping {bug: Bug}, two issues labelled bug, no limit.
C6_Example ==
    /\ Returned
    /\ mapping = << <<"bug", "Bug">> >>
    /\ limit = None
    /\ ~dry_run
    /\ Len(listed[1]) = 2
    /\ \A k \in 1..Len(log) : log[k].ok

(***************************************************************************)
(* C7: a mapping entry whose issue type or label has no case-insensitive   *)
(* name match on the server ends the run with an uncaught error: the only  *)
(* requests ever sent for it are its lookups (no listing, no mutation), no *)
(* later entry is processed, and from the moment the run reaches it        *)
(* migrate_issues does not return; the lookup that finds no match raises   *)
(* ValueError.                                                             *)
(***************************************************************************)
Unresolvable(e) ==
    \/ IdsNamed(orgTypes, mapping[e][2]) = {}
    \/ IdsNamed(repoLabels, mapping[e][1]) = {}

C7_LabelWitness ==
    /\ Raised
    /\ exc = "ValueError"
    /\ LastOf(log).op = "get_label_id"

(***************************************************************************)
(* C8: get_issues_with_label returns the concatenation, in page order, of  *)
(* the pages it was served, up to and including the first page whose       *)
(* hasNextPage is false; served by a server that pages through the label's *)
(* issues, that is every issue carrying the label, exactly once.           *)
(***************************************************************************)
\* The edges of the pages served for entry e, from log position k on.
RECURSIVE PagesFrom(_, _)
PagesFrom(e, k) ==
    IF k > Len(log) THEN <<>>
    ELSE (IF log[k].op = "get_issues_with_label" /\ log[k].entry = e /\ log[k].ok
          THEN log[k].page.edges ELSE <<>>) \o PagesFrom(e, k + 1)

\* The issues carrying the label named by entry e.
Carriers(e) ==
    { i \in Issues : issueLabels[i] \cap IdsNamed(repoLabels, mapping[e][1]) # {} }

Range(s) == { s[k] : k \in 1..Len(s) }

C8_ListIsAllPages ==
    /\ \A e \in 1..Len(listed) :
          /\ listed[e] = PagesFrom(e, 1)
          /\ Cardinality(Range(listed[e])) = Len(listed[e])
    \* while the pages are being fetched
    /\ pc = "get_issues_with_label" => issues = PagesFrom(entry, 1)
    \* the moment the list is returned
    /\ (pc = "for_issue" /\ LastOf(log).op = "get_issues_with_label") =>
          /\ issues = listed[entry]
          /\ LastOf(log).page.hasNextPage = FALSE
          /\ Range(issues) = Carriers(entry)

\* A list of all the repository's issues, returned after several pages.
C8_Witness ==
    /\ pc = "for_issue"
    /\ LastOf(log).op = "get_issues_with_label"
    /\ Len(issues) = MaxIssues
    /\ Cardinality({ k \in SentAt({"get_issues_with_label"}) : log[k].entry = entry }) >= 2

(***************************************************************************)
(* C9: get_issues_with_label sends its first request with the null cursor  *)
(* and each later one with the endCursor of the page before, which said    *)
(* hasNextPage; it sends nothing after a page that says hasNextPage =      *)
(* false.  A list of n issues served PageSize to a page so costs exactly   *)
(* max(1, ceil(n / PageSize)) requests.                                    *)
(***************************************************************************)
Listings == SentAt({"get_issues_with_label"})
ListingsOf(e) == { k \in Listings : log[k].entry = e }
CeilDiv(n, p) == (n + p - 1) \div p
Max(a, b) == IF a >= b THEN a ELSE b

C9_PageRequests ==
    /\ \A k \in Listings :
          /\ IF k > 1 /\ log[k - 1].op = "get_issues_with_label"
             THEN /\ log[k - 1].entry = log[k].entry
                  /\ log[k - 1].ok
                  /\ log[k - 1].page.hasNextPage
                  /\ log[k].cursor = log[k - 1].page.endCursor
                  /\ log[k].cursor # NullCursor
             ELSE log[k].cursor = NullCursor
          /\ (log[k].ok /\ ~log[k].page.hasNextPage) =>
                /\ k < Len(log) => log[k + 1].op # "get_issues_with_label"
                /\ Len(listed) >= log[k].entry
    /\ \A e \in 1..Len(listed) :
          /\ Cardinality(ListingsOf(e)) = Max(1, CeilDiv(Len(listed[e]), PageSize))
          /\ \A j, k \in ListingsOf(e) : j <= k => \A m \in j..k : m \in ListingsOf(e)

\* Two lists were fetched: one of several pages, the last page not full or
\* full, and an empty one with one request.
C9_Witness ==
    /\ Len(listed) = 2
    /\ Len(listed[1]) = MaxIssues
    /\ Len(listed[2]) = 0
    /\ Cardinality(ListingsOf(1)) >= 2
    /\ Cardinality(ListingsOf(2)) = 1

\* A list of exactly PageSize issues was fetched with one request.
C9_FullPageWitness ==
    /\ Len(listed) >= 1
    /\ Len(listed[1]) = PageSize
    /\ Cardinality(ListingsOf(1)) = 1

(***************************************************************************)
(* C10, as claimed: once the count has reached the limit N (an Nth issue   *)
(* was visited), no further request of any kind is sent, so none for a     *)
(* mapping entry after that of the Nth issue, and the run does not raise.  *)
(* The code checks the limit only at the head of `for issue in issues`:    *)
(* when the Nth issue is the last of its list, the run goes on to the next *)
(* entry's lookups and listing, and a failed lookup there aborts it.       *)
(***************************************************************************)
C10_HaltsAtLimit ==
    (HasLimit /\ count >= 1 /\ count >= limit[1]) =>
        /\ ~Raised
        /\ \A k \in 1..Len(log) : log[k].entry <= LastOf(visits).entry

(***************************************************************************)
(* C11: when the list fetched for a mapping entry is empty (its type and   *)
(* label were resolved), no issue is attempted for that entry: no issue    *)
(* step and no mutation carries it and the count stays what the earlier    *)
(* entries made it; the run does not end in that entry, neither by an      *)
(* exception nor by a return, but goes on to the next entry: the request   *)
(* after the entry's listing is the type lookup of the next entry.         *)
(***************************************************************************)
\* Entries whose list was fetched and is empty.
EmptyEntries == { e \in 1..Len(listed) : listed[e] = <<>> }
VisitsBefore(e) == Cardinality({ k \in 1..Len(visits) : visits[k].entry < e })
Ended == main \in {"done", "failed"}

C11_EmptyListIsSkipped ==
    \A e \in EmptyEntries :
        /\ \A k \in 1..Len(visits) : visits[k].entry # e
        /\ \A k \in SentAt(Mutations) : log[k].entry # e
        /\ entry = e => count = VisitsBefore(e)
        /\ (Raised \/ Returned) => entry > e
        /\ \A k \in 1..Len(log) - 1 :
              (log[k].entry = e /\ log[k].op = "get_issues_with_label") =>
                  log[k + 1] = Request("get_issue_type", e + 1, 0, NullCursor,
                                       log[k + 1].ok, NoPage, log[k + 1].id)
        /\ (Ended /\ e < Len(mapping)) => \E k \in 1..Len(log) : log[k].entry = e + 1

\* The first entry's list was empty, with a limit of 0 or with issues
\* counted afterwards for the second entry, and the run returned.
C11_Witness ==
    /\ Returned
    /\ Len(listed) = 2
    /\ listed[1] = <<>>
    /\ limit = Some(0) \/ Len(visits) >= 1

(***************************************************************************)
(* C12: the HTTP client is closed on every exit path of run_migration:     *)
(* once the `async with` block is left, by the return of migrate_issues    *)
(* after the loops, by its early return on the limit or by an exception,   *)
(* the client has been closed; it is closed before the summary line is     *)
(* written, and no request is sent after it was closed.                    *)
(***************************************************************************)
LimitReturn == Returned /\ entry <= Len(mapping)

C12_ClientClosedOnExit ==
    /\ main # "async_with" => client_closed
    /\ Ended => client_closed
    /\ summary # None => client_closed
    /\ client_closed => (Returned \/ Raised)

\* The run was aborted by an exception and run_migration has ended.
C12_Witness ==
    /\ Ended
    /\ Raised
    /\ Len(visits) >= 1

\* The run returned early on the limit, and the summary line was written.
C12_LimitWitness ==
    /\ Ended
    /\ LimitReturn
    /\ summary # None

\* The run returned after the last mapping entry; the summary line is about
\* to be written.
C12_ReturnWitness ==
    /\ main = "after_with"
    /\ Returned
    /\ entry > Len(mapping)

(***************************************************************************)
(* C13: the requests are sent one after the other in a fixed order: the    *)
(* mapping entries in insertion order; within an entry the type lookup,    *)
(* then the label lookup, then all listing requests, then the mutations;   *)
(* the issues of an entry in the order of its list; and for each issue     *)
(* remove_label is sent only right after update_issue_type for that issue  *)
(* has completed (successfully).                                           *)
(***************************************************************************)
Rank(op) ==
    CASE op = "get_issue_type" -> 1
      [] op = "get_label_id" -> 2
      [] op = "get_issues_with_label" -> 3
      [] op \in Mutations -> 4

C13_RequestsInOrder ==
    /\ Len(log) >= 1 => (log[1].entry = 1 /\ log[1].op = "get_issue_type")
    /\ \A k \in 1..Len(log) - 1 :
          \/ /\ log[k + 1].entry = log[k].entry
             /\ Rank(log[k + 1].op) >= Rank(log[k].op)
             /\ Rank(log[k].op) <= 2 => Rank(log[k + 1].op) = Rank(log[k].op) + 1
          \/ /\ log[k + 1].entry = log[k].entry + 1
             /\ log[k + 1].op = "get_issue_type"
             /\ Rank(log[k].op) >= 3
    /\ \A k \in SentAt(Mutations) :
          /\ log[k].entry <= Len(listed)
          /\ IndexOf(listed[log[k].entry], log[k].issue) > 0
          /\ \A j \in SentAt(Mutations) :
                (j < k /\ log[j].entry = log[k].entry) =>
                    IndexOf(listed[log[j].entry], log[j].issue)
                        <= IndexOf(listed[log[k].entry], log[k].issue)
    /\ \A k \in SentAt({"remove_label"}) :
          /\ k > 1
          /\ log[k - 1].op = "update_issue_type"
          /\ log[k - 1].ok
          /\ log[k - 1].entry = log[k].entry
          /\ log[k - 1].issue = log[k].issue
    /\ \A k \in SentAt({"update_issue_type"}) :
          k > 1 /\ (log[k - 1].op = "update_issue_type" => log[k - 1].issue # log[k].issue)

\* Both issues of the first entry's list were updated and had the label
\* removed, and the requests of the second entry have begun.
C13_Witness ==
    /\ Len(listed) >= 1
    /\ Len(listed[1]) = MaxIssues
    /\ \A i \in Issues : \E k \in SentAt({"remove_label"}) : log[k].issue = i /\ log[k].entry = 1
    /\ \E k \in 1..Len(log) : log[k].entry = 2 /\ log[k].op = "get_issues_with_label"

(***************************************************************************)
(* C14: only failures of update_issue_type and remove_label are absorbed.  *)
(* A failed type lookup, label lookup or page request (of any page, also   *)
(* one after the first) is the last request of the run: the HTTPError      *)
(* leaves migrate_issues, which returns nothing; the list of the failed    *)
(* listing is never returned and none of its issues is visited; no summary *)
(* line is written.  Conversely the run raises HTTPError only so.          *)
(***************************************************************************)
Fatal == Lookups \cup {"get_issues_with_label"}
FailedAt(ops) == { k \in SentAt(ops) : ~log[k].ok }

C14_OnlyMutationFailuresAbsorbed ==
    /\ \A k \in FailedAt(Fatal) :
          /\ k = Len(log)
          /\ Raised
          /\ exc = "HTTPError"
          /\ result = None
          /\ summary = None
          /\ main # "done"
          /\ Len(listed) < log[k].entry
          /\ \A v \in 1..Len(visits) : visits[v].entry < log[k].entry
    /\ \A k \in FailedAt(Mutations) :
          k = Len(log) => ~Raised
    /\ (Raised /\ exc = "HTTPError") => Len(log) \in FailedAt(Fatal)

\* The request of a later page failed after the first page had returned an
\* issue, and run_migration has ended.
C14_Witness ==
    /\ Ended
    /\ Len(log) \in FailedAt({"get_issues_with_label"})
    /\ LastOf(log).cursor # NullCursor
    /\ \E k \in 1..Len(log) - 1 :
          /\ log[k].op = "get_issues_with_label"
          /\ log[k].entry = LastOf(log).entry
          /\ log[k].ok
          /\ log[k].page.edges # <<>>

\* A lookup failed for the second entry after an issue of the first entry
\* had been visited.
C14_LookupWitness ==
    /\ Len(log) \in FailedAt(Lookups)
    /\ LastOf(log).entry = 2
    /\ Len(visits) >= 1

(***************************************************************************)
(* C15: when update_issue_type succeeded and remove_label failed for an    *)
(* issue, no further request is sent for that issue in that pass (nothing  *)
(* undoes the update, nothing retries the removal): the issue is left with *)
(* the new issue type and still carries the label; the step is counted     *)
(* exactly once; the run does not raise and goes on with the next issue    *)
(* of the list (or, the list or the limit exhausted, with what follows).   *)
(***************************************************************************)
VisitsOf(e, i) == { v \in 1..Len(visits) : visits[v].entry = e /\ visits[v].issue = i }

C15_FailedRemoveLeavesUpdate ==
    \A k \in FailedAt({"remove_label"}) :
        LET e == log[k].entry
            i == log[k].issue
        IN  /\ log[k - 1] = Request("update_issue_type", e, i, NullCursor, TRUE, NoPage,
                                    log[k - 1].id)
            /\ Cardinality(VisitsOf(e, i)) = 1
            /\ \A v \in VisitsOf(e, i) : visits[v].outcome = "remove_failed"
            /\ count = Len(visits)
            /\ \A j \in k + 1..Len(log) : log[j].entry = e => log[j].issue # i
            /\ k = Len(log) =>
                  /\ issueType[i] = log[k - 1].id
                  /\ issueType[i] \in IdsNamed(orgTypes, mapping[e][2])
                  /\ log[k].id \in issueLabels[i]
                  /\ log[k].id \in IdsNamed(repoLabels, mapping[e][1])
                  /\ ~Raised
                  /\ Returned => (LimitReached(limit, count) \/ entry > Len(mapping))
            /\ (k < Len(log) /\ IndexOf(listed[e], i) < Len(listed[e])) =>
                  /\ log[k + 1].op = "update_issue_type"
                  /\ log[k + 1].entry = e
                  /\ log[k + 1].issue = listed[e][IndexOf(listed[e], i) + 1]

\* The removal failed for the first issue of a list of two, and the second
\* issue of the list was then updated.
C15_Witness ==
    \E k \in FailedAt({"remove_label"}) :
        /\ k < Len(log)
        /\ log[k + 1].op = "update_issue_type"
        /\ log[k + 1].entry = log[k].entry

(***************************************************************************)
(* C16: for each mapping entry the issue type and the label are looked up  *)
(* once each, however many issues its list holds (never more than once;    *)
(* exactly once, both successfully, when the entry's list was fetched),    *)
(* and every mutation of that entry's pass carries the identifier that     *)
(* lookup returned: update_issue_type the type id, remove_label the label  *)
(* id.                                                                     *)
(***************************************************************************)
LookupsOf(op, e) == { k \in SentAt({op}) : log[k].entry = e }
LookupFor(op) == IF op = "update_issue_type" THEN "get_issue_type" ELSE "get_label_id"

C16_OneLookupPerEntry ==
    /\ \A e \in 1..Len(mapping) : \A op \in Lookups :
          /\ Cardinality(LookupsOf(op, e)) <= 1
          /\ e <= Len(listed) =>
                /\ Cardinality(LookupsOf(op, e)) = 1
                /\ \A k \in LookupsOf(op, e) : log[k].ok /\ log[k].id # ""
    /\ \A k \in SentAt(Mutations) :
          \E j \in LookupsOf(LookupFor(log[k].op), log[k].entry) :
              /\ j < k
              /\ log[j].ok
              /\ log[j].id # ""
              /\ log[k].id = log[j].id

\* Two issues of one entry were updated and had the label removed, after
\* one lookup of the type and one of the label.
C16_Witness ==
    \E e \in 1..Len(listed) :
        /\ Len(listed[e]) = MaxIssues
        /\ Cardinality({ k \in SentAt({"remove_label"}) : log[k].entry = e }) = MaxIssues
        /\ Cardinality(LookupsOf("get_issue_type", e)) = 1
        /\ Cardinality(LookupsOf("get_label_id", e)) = 1

(***************************************************************************)
(* C17: in a run that is not a dry run, at every moment the number of      *)
(* remove_label requests is at most the number of update_issue_type        *)
(* requests, which is at most count + 1; every remove_label request comes  *)
(* after a successful update_issue_type for the same issue in the same     *)
(* pass; and when migrate_issues returns, the number of update_issue_type  *)
(* requests equals the returned count.                                     *)
(***************************************************************************)
C17_MutationCounts ==
    ~dry_run =>
        /\ Sent({"remove_label"}) <= Sent({"update_issue_type"})
        /\ Sent({"update_issue_type"}) <= count + 1
        /\ \A k \in SentAt({"remove_label"}) :
              \E j \in SentAt({"update_issue_type"}) :
                  /\ j < k
                  /\ log[j].ok
                  /\ log[j].entry = log[k].entry
                  /\ log[j].issue = log[k].issue
        /\ Returned => Sent({"update_issue_type"}) = result[1]

\* A run that is not a dry run returned after more updates than removals:
\* an update failed, another one succeeded.
C17_Witness ==
    /\ ~dry_run
    /\ Returned
    /\ result = Some(MaxIssues)
    /\ Sent({"remove_label"}) >= 1
    /\ Sent({"remove_label"}) < Sent({"update_issue_type"})
    /\ FailedAt({"update_issue_type"}) # {}

(***************************************************************************)
(* C18: an issue is visited once for every mapping entry whose list holds  *)
(* it, not once per run.  When a run without a limit returns, the returned *)
(* count is the sum of the lengths of the entries' lists and every issue   *)
(* was visited as many times as there are lists holding it.  A list holds  *)
(* the issues carrying the entry's label when it is fetched; when no two   *)
(* mapping keys name the same label, these are the issues that carried the *)
(* label before the run (a pass removes only its own label), so an issue   *)
(* that carried k mapped labels is counted k times.  In a run that is not  *)
(* a dry run, an issue all of whose mutations succeeded ends with the      *)
(* issue type looked up for the last entry whose list held it.             *)
(***************************************************************************)
EntriesHolding(i) == { e \in 1..Len(listed) : i \in Range(listed[e]) }
VisitsOfIssue(i) == { v \in 1..Len(visits) : visits[v].issue = i }
\* The labels issue i carried before the run: those it carries now and
\* those the run removed.
InitialLabels(i) ==
    issueLabels[i] \cup
    { log[k].id : k \in { j \in SentAt({"remove_label"}) : log[j].ok /\ log[j].issue = i } }
DistinctLabels ==
    \A a, b \in 1..Len(mapping) : a # b => Lower(mapping[a][1]) # Lower(mapping[b][1])
EntriesCarried(i) ==
    { e \in 1..Len(mapping) : IdsNamed(repoLabels, mapping[e][1]) \cap InitialLabels(i) # {} }
LastEntry(S) == CHOOSE e \in S : \A f \in S : f <= e
AllMutationsOk(i) == \A k \in SentAt(Mutations) : log[k].issue = i => log[k].ok

C18_DryWitness ==
    /\ Returned
    /\ limit = None
    /\ dry_run
    /\ \E i \in Issues :
          /\ EntriesHolding(i) = {1, 2}
          /\ DistinctLabels
          /\ Cardinality(VisitsOfIssue(i)) = 2

(***************************************************************************)
(* C19: when the run aborts while processing a later mapping entry (a      *)
(* failed or unresolved lookup, a failed page request), nothing is sent    *)
(* after the failing request, so every mutation applied for the earlier    *)
(* entries stays applied: each issue has the type of its last successful   *)
(* update_issue_type and lacks every label successfully removed;           *)
(* migrate_issues returns nothing, whatever the count had reached, and the *)
(* summary line is never written.                                          *)
(***************************************************************************)
OkAt(ops, i) == { k \in SentAt(ops) : log[k].ok /\ log[k].issue = i }
LastIn(S) == CHOOSE k \in S : \A j \in S : j <= k

C19_AbortKeepsEarlierMutations ==
    (Raised /\ entry >= 2) =>
        /\ result = None
        /\ summary = None
        /\ main \in {"async_with", "failed"}
        /\ LastOf(log).entry = entry
        /\ LastOf(log).op \in Fatal
        /\ ~LastOf(log).ok \/ LastOf(log).id = ""
        /\ \A i \in Issues :
              /\ issueType[i] = IF OkAt({"update_issue_type"}, i) = {} THEN NoType
                                ELSE log[LastIn(OkAt({"update_issue_type"}, i))].id
              /\ \A k \in OkAt({"remove_label"}, i) : log[k].id \notin issueLabels[i]

\* The run was aborted in the second entry after an issue of the first
\* entry had been migrated, and run_migration has ended.
C19_Witness ==
    /\ Ended
    /\ Raised
    /\ entry = 2
    /\ count >= 1
    /\ \E i \in Issues :
          /\ OkAt({"remove_label"}, i) # {}
          /\ issueType[i] = TypeBug.id
          /\ LabelBug.id \notin issueLabels[i]

====
